---- MODULE Spec2Model ----
(***************************************************************************)
(* A model of tonalfitness/ivsmeta: the PES header parser, the PES         *)
(* accumulator, the ID3 value splitting and the extraction pipeline        *)
(* (ReadStream's producer goroutine, the channel, and its consumer).       *)
(*                                                                         *)
(* Bytes are naturals 0..255, byte slices are sequences (Go index i is     *)
(* TLA+ index i+1).  A Go error is the chain of its wrapped errors, a      *)
(* sequence of strings whose last element is the innermost error; nil is   *)
(* the empty chain.  errors.Is(err, io.EOF) is membership of "EOF".        *)
(***************************************************************************)
EXTENDS Integers, Sequences, FiniteSets, TLC

VARIABLES
    api,            \* "Read" or "ReadStream": which entry point started the producer
    cap,            \* capacity of infoChan
    pc,             \* the producer goroutine's position
    metadataPID,    \* result of getStreamPID (0 until resolved)
    pesAccumulator, \* readPacketStream's current accumulator
    pending,        \* the MetaOptional the producer is about to send
    infoChan,       \* the channel's buffered items
    closed,         \* the channel is closed
    rd,             \* the results of the packet reads made so far (the input consumed)
    cstate,         \* the consumer's position
    meta,           \* the consumer's list of records (Read's meta)
    retErr,         \* the error Read returned
    sent,           \* history: every item the producer enqueued, in order
    closes,         \* history: how often the producer closed the channel
    closedBy,       \* history: who closed the channel
    panicMsg,       \* the panic that ended the process, "" if none
    units,          \* history: for each completed unit, the target packets it was fed
    unitPkts,       \* history: the target packets fed to the current accumulator
    acc,            \* accumulator harness: one PESAccumulator
    calls,          \* accumulator harness: the Write calls made on acc, with results
    accPanic,       \* accumulator harness: a Write call panicked
    applied,        \* function harness: the function that was applied, "" before
    arg,            \* function harness: the function's input
    result          \* function harness: the function's result

pipeVars == <<api, cap, pc, metadataPID, pesAccumulator, pending, infoChan, closed,
              rd, cstate, meta, retErr, sent, closes, closedBy, panicMsg, units,
              unitPkts>>
accVars == <<acc, calls, accPanic>>
fnVars == <<applied, arg, result>>
vars == <<api, cap, pc, metadataPID, pesAccumulator, pending, infoChan, closed,
          rd, cstate, meta, retErr, sent, closes, closedBy, panicMsg, units,
          unitPkts, acc, calls, accPanic, applied, arg, result>>

----------------------------------------------------------------------------
(* Bounds of the model *)

\* packet reads the input offers before it must end
MaxReads == 4
\* largest capacity of a caller-supplied channel
MaxCap == 2
\* Write calls made on the stand-alone accumulator
MaxWrites == 4

----------------------------------------------------------------------------
(* Bit operations on naturals, as Go's on unsigned integers *)

RECURSIVE BitAnd(_, _)
BitAnd(a, b) ==
    IF a = 0 \/ b = 0 THEN 0
    ELSE (a % 2) * (b % 2) + 2 * BitAnd(a \div 2, b \div 2)

RECURSIVE BitOr(_, _)
BitOr(a, b) ==
    IF a = 0 THEN b
    ELSE IF b = 0 THEN a
    ELSE (IF a % 2 = 1 \/ b % 2 = 1 THEN 1 ELSE 0) + 2 * BitOr(a \div 2, b \div 2)

Shl(a, n) == a * (2 ^ n)
Shr(a, n) == a \div (2 ^ n)

\* Go's s[i] and s[i:j] on a byte slice
At(s, i) == s[i + 1]
Slice(s, i, j) == SubSeq(s, i + 1, j)
SliceFrom(s, i) == SubSeq(s, i + 1, Len(s))

NilErr == << >>
IsEOF(err) == \E i \in 1..Len(err) : err[i] = "EOF"
Wrap(msg, err) == <<msg>> \o err

----------------------------------------------------------------------------
(* PES header (pes package) *)

STREAM_ID_PADDNG_STREAM == 190
STREAM_ID_PRIVATE_STREAM_2 == 191
STREAM_ID_ECM_STREAM == 240
STREAM_ID_EMM_STREAM == 241
STREAM_ID_DSM_CC_STREAM == 242
STREAM_ID_ITU_T_H222_1_TYPE_E == 248
STREAM_ID_PROGRAM_STREAM_DIRECTORY == 255

PTS_DTS_INDICATOR_NONE == 0
PTS_DTS_INDICATOR_BOTH == 3

\* A uint64 timestamp is held as two limbs, value = hi * 2^30 + lo with
\* lo < 2^30, because a 33-bit value exceeds the model checker's integers.
U64Zero == [hi |-> 0, lo |-> 0]

\* mutant of ExtractTime: the first byte's fragment is not masked
ExtractTime_unmasked(bytes) ==
    [hi |-> Shr(At(bytes, 0), 1),
     lo |-> BitOr(BitOr(BitOr(Shl(At(bytes, 1), 22),
                              Shl(BitAnd(Shr(At(bytes, 2), 1), 127), 15)),
                        Shl(At(bytes, 3), 7)),
                  BitAnd(Shr(At(bytes, 4), 1), 127))]

ExtractTime(bytes) ==
    LET a == BitAnd(Shr(At(bytes, 0), 1), 7)
        b == At(bytes, 1)
        c == BitAnd(Shr(At(bytes, 2), 1), 127)
        d == At(bytes, 3)
        e == BitAnd(Shr(At(bytes, 4), 1), 127)
    IN  \* (a << 30) | (b << 22) | (c << 15) | (d << 7) | e
        [hi |-> a,
         lo |-> BitOr(BitOr(BitOr(Shl(b, 22), Shl(c, 15)), Shl(d, 7)), e)]

CheckLength(byteArray, min) == ~(Len(byteArray) < min)

\* new(PESHeader): every field at its zero value
ZeroPESHeader ==
    [isNil |-> FALSE, packetStartCodePrefix |-> 0, dataAlignment |-> FALSE,
     streamId |-> 0, pesPacketLength |-> 0, dataStartIndex |-> 0,
     ptsDtsIndicator |-> 0, pts |-> U64Zero, dts |-> U64Zero, data |-> << >>]

\* a nil *PESHeader
NilPESHeader == [ZeroPESHeader EXCEPT !.isNil = TRUE]

optionalFieldsExist(pes) ==
    IF \/ pes.streamId = STREAM_ID_PADDNG_STREAM
       \/ pes.streamId = STREAM_ID_PRIVATE_STREAM_2
       \/ pes.streamId = STREAM_ID_ECM_STREAM
       \/ pes.streamId = STREAM_ID_EMM_STREAM
       \/ pes.streamId = STREAM_ID_DSM_CC_STREAM
       \/ pes.streamId = STREAM_ID_ITU_T_H222_1_TYPE_E
       \/ pes.streamId = STREAM_ID_PROGRAM_STREAM_DIRECTORY
    THEN FALSE
    ELSE TRUE

\* the fixed fields: start code prefix, stream id, declared length, and the
\* data alignment flag read from pesBytes[6]
fixedFields(pesBytes) ==
    [ZeroPESHeader EXCEPT
       !.packetStartCodePrefix =
           BitOr(BitOr(Shl(At(pesBytes, 0), 16), Shl(At(pesBytes, 1), 8)),
                 At(pesBytes, 2)),
       !.streamId = At(pesBytes, 3),
       !.pesPacketLength = BitOr(Shl(At(pesBytes, 4), 8), At(pesBytes, 5)),
       !.dataAlignment = (BitAnd(At(pesBytes, 6), 4) # 0),
       !.dataStartIndex = 6]

\* mutant of optionalFields: the header length byte is left out of the offset
optionalFields_fixedStart(pes, pesBytes, ptsDtsIndicator) ==
    [pes EXCEPT
       !.dataStartIndex = 9,
       !.ptsDtsIndicator = ptsDtsIndicator,
       !.pts = IF /\ ptsDtsIndicator # PTS_DTS_INDICATOR_NONE
                  /\ CheckLength(pesBytes, 14)
               THEN ExtractTime(Slice(pesBytes, 9, 14))
               ELSE pes.pts,
       !.dts = IF /\ ptsDtsIndicator # PTS_DTS_INDICATOR_NONE
                  /\ CheckLength(pesBytes, 14)
                  /\ ptsDtsIndicator = PTS_DTS_INDICATOR_BOTH
                  /\ CheckLength(pesBytes, 19)
               THEN ExtractTime(Slice(pesBytes, 14, 19))
               ELSE pes.dts]

\* the optional fields, ptsDtsIndicator being (pesBytes[7] & 0xc0) >> 6
optionalFields(pes, pesBytes, ptsDtsIndicator) ==
    [pes EXCEPT
       !.dataStartIndex = 9 + At(pesBytes, 8),
       !.ptsDtsIndicator = ptsDtsIndicator,
       !.pts = IF /\ ptsDtsIndicator # PTS_DTS_INDICATOR_NONE
                  /\ CheckLength(pesBytes, 14)
               THEN ExtractTime(Slice(pesBytes, 9, 14))
               ELSE pes.pts,
       !.dts = IF /\ ptsDtsIndicator # PTS_DTS_INDICATOR_NONE
                  /\ CheckLength(pesBytes, 14)
                  /\ ptsDtsIndicator = PTS_DTS_INDICATOR_BOTH
                  /\ CheckLength(pesBytes, 19)
               THEN ExtractTime(Slice(pesBytes, 14, 19))
               ELSE pes.dts]

\* pes.data: the bytes beyond the data start index
headerData(pes, pesBytes) ==
    IF Len(pesBytes) > pes.dataStartIndex
    THEN [pes EXCEPT !.data = SliceFrom(pesBytes, pes.dataStartIndex)]
    ELSE pes

\* the header parsed from at least 7 bytes, pes holding the fixed fields
parsedHeader(pes, pesBytes) ==
    IF optionalFieldsExist(pes) /\ CheckLength(pesBytes, 9)
    THEN headerData(optionalFields(pes, pesBytes,
                                   Shr(BitAnd(At(pesBytes, 7), 192), 6)),
                    pesBytes)
    ELSE headerData(pes, pesBytes)

\* The result is [pes, err, panic]: panic is the run-time panic of an index
\* out of range (pesBytes[6] on a slice of exactly 6 bytes).
NewPESHeader(pesBytes) ==
    IF ~CheckLength(pesBytes, 6)
    THEN [pes |-> ZeroPESHeader,
          err |-> <<"invalid length for PES header">>, panic |-> FALSE]
    ELSE IF Len(pesBytes) < 7
    THEN [pes |-> ZeroPESHeader, err |-> NilErr, panic |-> TRUE]
    ELSE [pes |-> parsedHeader(fixedFields(pesBytes), pesBytes),
          err |-> NilErr, panic |-> FALSE]

PacketSize(pes) == pes.pesPacketLength - (pes.dataStartIndex - 6)

----------------------------------------------------------------------------
(* The transport packet (gots packet.Packet), as far as the code uses it:   *)
(* its PID, whether it starts a payload unit, and its payload.              *)

Pkt(pid, pusi, hasPayload, payload) ==
    [pid |-> pid, pusi |-> pusi, hasPayload |-> hasPayload, payload |-> payload]

\* packet.PESHeader(pkt): the payload of a packet that starts a unit with the
\* start code prefix 0x000001, an error otherwise
PacketPESHeader(pkt) ==
    IF /\ pkt.hasPayload
       /\ pkt.pusi
       /\ Len(pkt.payload) >= 3
       /\ At(pkt.payload, 0) = 0
       /\ At(pkt.payload, 1) = 0
       /\ At(pkt.payload, 2) = 1
    THEN [bytes |-> pkt.payload, err |-> NilErr]
    ELSE [bytes |-> << >>, err |-> <<"ErrNoPayload">>]

\* pkt.Payload()
PacketPayload(pkt) ==
    IF pkt.hasPayload
    THEN [bytes |-> pkt.payload, err |-> NilErr]
    ELSE [bytes |-> << >>, err |-> <<"ErrNoPayload">>]

----------------------------------------------------------------------------
(* PESAccumulator *)

\* &PESAccumulator{}
EmptyPESAccumulator == [PESHeader |-> NilPESHeader, packetSize |-> 0, Data |-> << >>]

OverrunErr == <<"overrun">>

\* mutant of checkDone: the overrun test is off by one
checkDone_late(pa) ==
    IF Len(pa.Data) > pa.packetSize + 1
    THEN [pa |-> pa, done |-> TRUE, err |-> OverrunErr, panic |-> FALSE]
    ELSE [pa |-> pa, done |-> (Len(pa.Data) = PacketSize(pa.PESHeader)),
          err |-> NilErr, panic |-> FALSE]

\* mutant of checkDone: an empty buffer is never complete
checkDone_nonempty(pa) ==
    IF Len(pa.Data) > pa.packetSize
    THEN [pa |-> pa, done |-> TRUE, err |-> OverrunErr, panic |-> FALSE]
    ELSE [pa |-> pa,
          done |-> (Len(pa.Data) > 0 /\ Len(pa.Data) = PacketSize(pa.PESHeader)),
          err |-> NilErr, panic |-> FALSE]

checkDone(pa) ==
    IF Len(pa.Data) > pa.packetSize
    THEN [pa |-> pa, done |-> TRUE, err |-> OverrunErr, panic |-> FALSE]
    ELSE [pa |-> pa, done |-> (Len(pa.Data) = PacketSize(pa.PESHeader)),
          err |-> NilErr, panic |-> FALSE]

\* the accumulator initialised from the parsed header pes
headerAccumulator(pes) ==
    [PESHeader |-> pes, packetSize |-> PacketSize(pes), Data |-> pes.data]

\* Write's first branch after NewPESHeader returned n
writeParsed(pa, n) ==
    IF n.panic
    THEN [pa |-> pa, done |-> FALSE, err |-> NilErr, panic |-> TRUE]
    ELSE IF n.err # NilErr
    THEN [pa |-> [pa EXCEPT !.PESHeader = n.pes], done |-> FALSE,
          err |-> Wrap("failed PES parse", n.err), panic |-> FALSE]
    ELSE checkDone(headerAccumulator(n.pes))

\* mutant of writeHeader: a packet without a PES header is skipped
writeHeader_skip(pa, h) ==
    IF h.err # NilErr
    THEN [pa |-> pa, done |-> FALSE, err |-> NilErr, panic |-> FALSE]
    ELSE writeParsed(pa, NewPESHeader(h.bytes))

\* Write's first branch after packet.PESHeader returned h
writeHeader(pa, h) ==
    IF h.err # NilErr
    THEN [pa |-> pa, done |-> FALSE,
          err |-> Wrap("first packet must contain a PES Header", h.err),
          panic |-> FALSE]
    ELSE writeParsed(pa, NewPESHeader(h.bytes))

\* Write on an accumulator without a header: the first chunk.
\* The result is [pa, done, err, panic]: pa is the accumulator after the call.
writeFirst(pa, pkt) == writeHeader(pa, PacketPESHeader(pkt))

\* Write's second branch after pkt.Payload() returned p
appendPayload(pa, p) ==
    IF p.err # NilErr
    THEN [pa |-> pa, done |-> FALSE,
          err |-> Wrap("failed getting payload", p.err), panic |-> FALSE]
    ELSE checkDone([pa EXCEPT !.Data = pa.Data \o p.bytes])

\* Write on an accumulator that has its header: a subsequent chunk.
writeNext(pa, pkt) == appendPayload(pa, PacketPayload(pkt))

\* mutant of Write: a packet that starts a unit is parsed as a header again
Write_reparse(pa, pkt) ==
    IF pa.PESHeader.isNil \/ PacketPESHeader(pkt).err = NilErr
    THEN writeFirst(pa, pkt)
    ELSE writeNext(pa, pkt)

Write(pa, pkt) ==
    IF pa.PESHeader.isNil THEN writeFirst(pa, pkt) ELSE writeNext(pa, pkt)

----------------------------------------------------------------------------
(* ID3 decoding.  A string is a sequence of bytes, NUL is 0. *)

NUL == 0
ID3Magic == 73

\* strings.Split(v, "\x00"): the segments between the NUL bytes
RECURSIVE SplitFrom(_, _, _)
SplitFrom(v, i, cur) ==
    IF i > Len(v) THEN <<cur>>
    ELSE IF v[i] = NUL THEN <<cur>> \o SplitFrom(v, i + 1, << >>)
    ELSE SplitFrom(v, i + 1, Append(cur, v[i]))

Split(v) == SplitFrom(v, 1, << >>)

\* mutant of parseValue: the string is cut at its first NUL only
parseValue_firstNul(v) ==
    IF Len(Split(v)) >= 2
    THEN [Prefix |-> Split(v)[1],
          Value |-> SubSeq(v, Len(Split(v)[1]) + 2, Len(v))]
    ELSE [Prefix |-> << >>, Value |-> v]

parseValue(v) ==
    LET split == Split(v)
    IN IF Len(split) = 2
       THEN [Prefix |-> split[1], Value |-> split[2]]
       ELSE [Prefix |-> << >>, Value |-> v]

\* easyid3.ReadID3, the external tag decoder: a deterministic function of the
\* buffer.  An empty buffer ends the decoder's read with io.EOF, a buffer that
\* does not start with the tag magic is rejected, any other buffer decodes to
\* one TXXX frame holding the rest of the buffer.
ReadID3(data) ==
    IF Len(data) = 0 THEN [tags |-> << >>, err |-> <<"EOF">>]
    ELSE IF data[1] # ID3Magic THEN [tags |-> << >>, err |-> <<"not an ID3 tag">>]
    ELSE [tags |-> [t \in {"TXXX"} |-> Tail(data)], err |-> NilErr]

\* a nil *MetaInfo
NilMetaInfo == [isNil |-> TRUE, PTS |-> U64Zero, MetaData |-> << >>]

\* parseID3 after ReadID3 returned r
metaInfoOf(pa, r) ==
    IF r.err # NilErr
    THEN [mi |-> NilMetaInfo, err |-> Wrap("failed ID3 parse", r.err)]
    ELSE [mi |-> [isNil |-> FALSE, PTS |-> pa.PESHeader.pts,
                  MetaData |-> [tag \in DOMAIN r.tags |-> parseValue(r.tags[tag])]],
          err |-> NilErr]

\* The result is [mi, err].
parseID3(pa) == metaInfoOf(pa, ReadID3(pa.Data))

\* MetaOptional
ErrItem(err) == [Error |-> err, MetaInfo |-> NilMetaInfo]
InfoItem(mi) == [Error |-> NilErr, MetaInfo |-> mi]

----------------------------------------------------------------------------
(* The inputs of the model: the packets a read may return *)

\* the PIDs of the two elementary streams of the model's inputs
PidA == 17
PidB == 18

\* 5-byte timestamp fields: 90000 (1.0 s) and 180000 (2.0 s)
PTS90000 == <<33, 0, 5, 191, 33>>
PTS180000 == <<33, 0, 11, 126, 65>>

\* a PES unit start: prefix, stream id, 16-bit declared length, the rest
PESBytes(streamId, length, rest) ==
    <<0, 0, 1, streamId, length \div 256, length % 256>> \o rest

\* the rest of a unit start with optional fields: flags (data alignment set),
\* "PTS only", header length 5, the PTS, the payload
WithPTS(ptsBytes, data) == <<132, 128, 5>> \o ptsBytes \o data

\* stream id 189 (private stream 1) carries optional fields
PesNeedsOne == Pkt(PidA, TRUE, TRUE, PESBytes(189, 10, WithPTS(PTS90000, <<ID3Magic>>)))
PesNeedsThree == Pkt(PidA, TRUE, TRUE, PESBytes(189, 12, WithPTS(PTS90000, <<ID3Magic>>)))
PesComplete == Pkt(PidA, TRUE, TRUE, PESBytes(189, 10, WithPTS(PTS180000, <<ID3Magic, 65>>)))
PesEmptyUnit == Pkt(PidA, TRUE, TRUE, PESBytes(189, 8, WithPTS(PTS90000, << >>)))
PesZeroLength == Pkt(PidA, TRUE, TRUE, PESBytes(189, 0, WithPTS(PTS90000, << >>)))
\* stream id 191 (private stream 2) carries none
PesNotID3 == Pkt(PidA, TRUE, TRUE, PESBytes(STREAM_ID_PRIVATE_STREAM_2, 1, <<65>>))
PesSixBytes == Pkt(PidA, TRUE, TRUE, PESBytes(STREAM_ID_PRIVATE_STREAM_2, 0, << >>))
PesFiveBytes == Pkt(PidA, TRUE, TRUE, <<0, 0, 1, STREAM_ID_PRIVATE_STREAM_2, 0>>)
ContOne == Pkt(PidA, FALSE, TRUE, <<65>>)
ContTwo == Pkt(PidA, FALSE, TRUE, <<NUL, 65>>)
NoPayload == Pkt(PidA, FALSE, FALSE, << >>)
OtherStream == Pkt(PidB, FALSE, TRUE, <<65>>)

PacketsA == {PesNeedsOne, PesNeedsThree, PesComplete, PesEmptyUnit, PesZeroLength, PesNotID3,
             PesSixBytes, PesFiveBytes, ContOne, ContTwo, NoPayload}
Packets == PacketsA \cup {OtherStream}

----------------------------------------------------------------------------
(* The stream locator.  psi.ReadPAT and psi.ReadPMT are external: a PAT is   *)
(* [err, pmap], pmap the PMTs in the order the range over the program map    *)
(* visits them, a PMT is [err, es], es its elementary streams [type, pid].   *)

IVSMetadataStreamType == 21
OtherStreamType == 27

\* programs per PAT and elementary streams per PMT in the model's inputs
MaxPrograms == 2
MaxStreams == 1

SeqsUpTo(S, n) == UNION {[1..k -> S] : k \in 0..n}

\* errors of the external collaborators: a plain one, and one that wraps io.EOF
CollaboratorErrs == {<<"not found">>, <<"read failed", "EOF">>}

ElementaryStreams ==
    [type : {IVSMetadataStreamType, OtherStreamType}, pid : {0, PidA}]
PMTs == [err : CollaboratorErrs, es : {<< >>}] \cup
        [err : {NilErr}, es : SeqsUpTo(ElementaryStreams, MaxStreams)]
PATs == [err : CollaboratorErrs, pmap : {<< >>}] \cup
        [err : {NilErr}, pmap : SeqsUpTo(PMTs, MaxPrograms)]

RECURSIVE firstMetadataPid(_, _)
\* the inner loop: the PID of the first elementary stream of the metadata type
firstMetadataPid(es, i) ==
    IF i > Len(es) THEN 0
    ELSE IF es[i].type = IVSMetadataStreamType THEN es[i].pid
    ELSE firstMetadataPid(es, i + 1)

RECURSIVE scanPrograms(_, _)
\* the outer loop over the program map; the result is [pid, err]
scanPrograms(pmap, i) ==
    IF i > Len(pmap) THEN [pid |-> 0, err |-> NilErr]
    ELSE IF pmap[i].err # NilErr
    THEN [pid |-> 0, err |-> Wrap("failed ReadPMT", pmap[i].err)]
    ELSE LET metadataPid == firstMetadataPid(pmap[i].es, 1)
         IN IF metadataPid # 0 THEN [pid |-> metadataPid, err |-> NilErr]
            ELSE scanPrograms(pmap, i + 1)

\* getStreamPID after the loop over the program map returned r
locatorResult(r) ==
    IF r.err # NilErr THEN r
    ELSE IF r.pid = 0 THEN [pid |-> 0, err |-> <<"no metadata stream found">>]
    ELSE r

\* The result is [pid, err].
getStreamPID(pat) ==
    IF pat.err # NilErr
    THEN [pid |-> 0, err |-> Wrap("failed ReadPAT", pat.err)]
    ELSE locatorResult(scanPrograms(pat.pmap, 1))

----------------------------------------------------------------------------
(* The results of io.ReadFull(r, pkt[:]): a packet, or the error that ends   *)
(* the input (io.EOF at a packet boundary, io.ErrUnexpectedEOF inside a      *)
(* packet, or a failure of the reader).                                      *)

ReadOK(pkt) == [err |-> NilErr, pkt |-> pkt]
ReadFailed(err) == [err |-> err, pkt |-> NoPayload]
ReadErrs == {<<"EOF">>, <<"ErrUnexpectedEOF">>, <<"read failed">>}
ReadResults == {ReadOK(pkt) : pkt \in Packets} \cup {ReadFailed(e) : e \in ReadErrs}

IsUnexpectedEOF(err) == \E i \in 1..Len(err) : err[i] = "ErrUnexpectedEOF"

\* the loop body after a unit was completed and parseID3 returned id3
afterDone(pa, id3) ==
    IF id3.err # NilErr
    THEN [pc |-> "sendErr", pa |-> pa, item |-> ErrItem(id3.err)]
    ELSE [pc |-> "send", pa |-> pa, item |-> InfoItem(id3.mi)]

\* the loop body after pesAccumulator.Write returned w
afterWrite(pa, w) ==
    IF w.panic
    THEN [pc |-> "panic", pa |-> pa, item |-> ErrItem(NilErr)]
    ELSE IF w.err # NilErr
    THEN [pc |-> "sendErr", pa |-> w.pa,
          item |-> ErrItem(Wrap("failed accumulation, bailing", w.err))]
    ELSE IF w.done
    THEN afterDone(w.pa, parseID3(w.pa))
    ELSE [pc |-> "read", pa |-> w.pa, item |-> ErrItem(NilErr)]

\* mutant of loopBody: a partial final packet is reported as a read failure
loopBody_strictEOF(pa, pid, res) ==
    IF res.err # NilErr
    THEN IF IsEOF(res.err)
         THEN [pc |-> "sendErr", pa |-> pa, item |-> ErrItem(<<"EOF">>)]
         ELSE [pc |-> "sendErr", pa |-> pa,
               item |-> ErrItem(Wrap("failed packet read", res.err))]
    ELSE IF res.pkt.pid = pid
    THEN afterWrite(pa, Write(pa, res.pkt))
    ELSE [pc |-> "read", pa |-> pa, item |-> ErrItem(NilErr)]

\* mutant of loopBody: a packet of another stream starts a new accumulator
loopBody_resetOnOther(pa, pid, res) ==
    IF res.err # NilErr
    THEN IF IsEOF(res.err) \/ IsUnexpectedEOF(res.err)
         THEN [pc |-> "sendErr", pa |-> pa, item |-> ErrItem(<<"EOF">>)]
         ELSE [pc |-> "sendErr", pa |-> pa,
               item |-> ErrItem(Wrap("failed packet read", res.err))]
    ELSE IF res.pkt.pid = pid
    THEN afterWrite(pa, Write(pa, res.pkt))
    ELSE [pc |-> "read", pa |-> EmptyPESAccumulator, item |-> ErrItem(NilErr)]

\* One iteration of readPacketStream's loop up to its channel operation, for
\* the read result res.  The result is [pc, pa, item]: the producer's next
\* position, its accumulator, and the item it is about to send.
loopBody(pa, pid, res) ==
    IF res.err # NilErr
    THEN IF IsEOF(res.err) \/ IsUnexpectedEOF(res.err)
         THEN [pc |-> "sendErr", pa |-> pa, item |-> ErrItem(<<"EOF">>)]
         ELSE [pc |-> "sendErr", pa |-> pa,
               item |-> ErrItem(Wrap("failed packet read", res.err))]
    ELSE IF res.pkt.pid = pid
    THEN afterWrite(pa, Write(pa, res.pkt))
    ELSE [pc |-> "read", pa |-> pa, item |-> ErrItem(NilErr)]

----------------------------------------------------------------------------
(* The earlier, synchronous packet loop (readPackets) as a function of the  *)
(* read results.  state is "returned", "panic", or "running" when the loop  *)
(* would read on past the results given.                                    *)

RECURSIVE readPacketsFrom(_, _, _, _, _)

\* the loop body after a unit was completed and parseID3 returned id3
syncAfterDone(reads, i, pid, m, id3) ==
    IF id3.err # NilErr
    THEN [state |-> "returned", meta |-> m, err |-> id3.err]
    ELSE readPacketsFrom(reads, i + 1, pid, Append(m, id3.mi), EmptyPESAccumulator)

\* the loop body after pesAccumulator.Write returned w
syncAfterWrite(reads, i, pid, m, w) ==
    IF w.panic
    THEN [state |-> "panic", meta |-> m, err |-> NilErr]
    ELSE IF w.err # NilErr
    THEN [state |-> "returned", meta |-> m,
          err |-> Wrap("failed accumulation, bailing", w.err)]
    ELSE IF w.done
    THEN syncAfterDone(reads, i, pid, m, parseID3(w.pa))
    ELSE readPacketsFrom(reads, i + 1, pid, m, w.pa)

readPacketsFrom(reads, i, pid, m, pa) ==
    IF i > Len(reads) THEN [state |-> "running", meta |-> m, err |-> NilErr]
    ELSE IF reads[i].err # NilErr
    THEN IF IsEOF(reads[i].err) \/ IsUnexpectedEOF(reads[i].err)
         THEN [state |-> "returned", meta |-> m, err |-> NilErr]
         ELSE [state |-> "returned", meta |-> m,
               err |-> Wrap("failed packet read", reads[i].err)]
    ELSE IF reads[i].pkt.pid = pid
    THEN syncAfterWrite(reads, i, pid, m, Write(pa, reads[i].pkt))
    ELSE readPacketsFrom(reads, i + 1, pid, m, pa)

readPackets(reads, pid) == readPacketsFrom(reads, 1, pid, << >>, EmptyPESAccumulator)

----------------------------------------------------------------------------
(* The pipeline: ReadStream's goroutine (the producer), infoChan, and the   *)
(* consumer.  Under api = "Read" the consumer is Read's range loop over a   *)
(* channel of capacity 100; under api = "ReadStream" the caller supplies    *)
(* the channel and may also stop receiving or close the channel.            *)

ReadChanCap == 100

InitAccIdle == acc = EmptyPESAccumulator /\ calls = << >> /\ accPanic = FALSE
InitFnIdle == applied = "" /\ arg = << >> /\ result = << >>

Init ==
    /\ api \in {"Read", "ReadStream"}
    /\ cap \in (IF api = "Read" THEN {ReadChanCap} ELSE 0..MaxCap)
    /\ pc = "locate" /\ metadataPID = 0
    /\ pesAccumulator = EmptyPESAccumulator /\ pending = ErrItem(NilErr)
    /\ infoChan = << >> /\ closed = FALSE /\ rd = << >> /\ cstate = "recv"
    /\ meta = << >> /\ retErr = NilErr /\ sent = << >> /\ closes = 0
    /\ closedBy = "" /\ panicMsg = "" /\ units = << >> /\ unitPkts = << >>
    /\ InitAccIdle
    /\ InitFnIdle

\* mutant of Consume: a received record is not kept
Consume_drop(m, mo) ==
    IF mo.Error # NilErr
    THEN IF IsEOF(mo.Error)
         THEN [cstate |-> "returned", meta |-> m, retErr |-> NilErr]
         ELSE [cstate |-> "returned", meta |-> m, retErr |-> mo.Error]
    ELSE [cstate |-> "recv", meta |-> m, retErr |-> NilErr]

\* the body of Read's range loop for one received item: [cstate, meta, retErr]
Consume(m, mo) ==
    IF mo.Error # NilErr
    THEN IF IsEOF(mo.Error)
         THEN [cstate |-> "returned", meta |-> m, retErr |-> NilErr]
         ELSE [cstate |-> "returned", meta |-> m, retErr |-> mo.Error]
    ELSE [cstate |-> "recv", meta |-> Append(m, mo.MetaInfo), retErr |-> NilErr]

\* mutant of CanSend: the buffer takes one item more than its capacity
CanSend_one_more == IF cap = 0 THEN cstate = "recv" ELSE Len(infoChan) <= cap

\* a send can proceed: room in the buffer, or a receiver waiting on an
\* unbuffered channel
CanSend == IF cap = 0 THEN cstate = "recv" ELSE Len(infoChan) < cap

\* the receiver takes an item: the consumer's state becomes c
Received(c) == cstate' = c.cstate /\ meta' = c.meta /\ retErr' = c.retErr

\* infoChan <- item on the open channel: into the buffer, or handed to the
\* waiting receiver
ChanSend(item) ==
    /\ sent' = Append(sent, item)
    /\ IF cap = 0
       THEN /\ Received(Consume(meta, item))
            /\ infoChan' = infoChan
       ELSE /\ infoChan' = Append(infoChan, item)
            /\ UNCHANGED <<cstate, meta, retErr>>

\* mutant of Panic: the goroutine recovers and returns
Panic_recovered(msg) ==
    /\ panicMsg' = panicMsg
    /\ pc' = "done"

\* a run-time panic ends the process
Panic(msg) ==
    /\ panicMsg' = msg
    /\ pc' = "panic"

\* mutant of nextAccumulator: the completed accumulator is kept
nextAccumulator_kept(pa) == pa

\* the accumulator the loop continues with after a record was sent
nextAccumulator(pa) == EmptyPESAccumulator

\* ReadStream's goroutine after getStreamPID returned r
Located(r) ==
    IF r.err # NilErr
    THEN /\ pending' = ErrItem(r.err)
         /\ pc' = "sendErr"
         /\ UNCHANGED metadataPID
    ELSE /\ metadataPID' = r.pid
         /\ pc' = "read"
         /\ UNCHANGED pending

\* getStreamPID, then errInfoChan's send or the packet loop
Locate ==
    /\ pc = "locate" /\ panicMsg = ""
    /\ \E pat \in PATs : Located(getStreamPID(pat))
    /\ UNCHANGED <<api, cap, pesAccumulator, infoChan, closed, rd, cstate, meta,
                   retErr, sent, closes, closedBy, panicMsg, units, unitPkts>>
    /\ UNCHANGED accVars
    /\ UNCHANGED fnVars

\* the producer after the loop body ended as b
LoopStep(b) ==
    /\ pc' = b.pc
    /\ panicMsg' = IF b.pc = "panic" THEN "index out of range" ELSE ""
    /\ pesAccumulator' = b.pa
    /\ pending' = b.item

\* one iteration of the packet loop, up to its channel operation
ReadPacket ==
    /\ pc = "read" /\ panicMsg = ""
    /\ \E res \in ReadResults :
         /\ Len(rd) < MaxReads \/ res.err # NilErr
         /\ rd' = Append(rd, res)
         /\ LoopStep(loopBody(pesAccumulator, metadataPID, res))
         /\ unitPkts' = IF res.err = NilErr /\ res.pkt.pid = metadataPID
                        THEN Append(unitPkts, res.pkt) ELSE unitPkts
    /\ UNCHANGED <<api, cap, metadataPID, infoChan, closed, cstate, meta, retErr,
                   sent, closes, closedBy, units>>
    /\ UNCHANGED accVars
    /\ UNCHANGED fnVars

\* infoChan <- &MetaOptional{MetaInfo: mi}, then the new accumulator
SendInfo ==
    /\ pc = "send" /\ panicMsg = ""
    /\ closed \/ CanSend
    /\ IF closed
       THEN /\ Panic("send on closed channel")
            /\ UNCHANGED <<pesAccumulator, infoChan, cstate, meta, retErr, sent,
                           units, unitPkts>>
       ELSE /\ ChanSend(pending)
            /\ pesAccumulator' = nextAccumulator(pesAccumulator)
            /\ units' = Append(units, unitPkts)
            /\ unitPkts' = << >>
            /\ pc' = "read"
            /\ UNCHANGED panicMsg
    /\ UNCHANGED <<api, cap, metadataPID, pending, closed, rd, closes, closedBy>>
    /\ UNCHANGED accVars
    /\ UNCHANGED fnVars

\* errInfoChan: infoChan <- &MetaOptional{Error: err}
SendErr ==
    /\ pc = "sendErr" /\ panicMsg = ""
    /\ closed \/ CanSend
    /\ IF closed
       THEN /\ Panic("send on closed channel")
            /\ UNCHANGED <<infoChan, cstate, meta, retErr, sent>>
       ELSE /\ ChanSend(pending)
            /\ pc' = "close"
            /\ UNCHANGED panicMsg
    /\ UNCHANGED <<api, cap, metadataPID, pesAccumulator, pending, closed, rd,
                   closes, closedBy, units, unitPkts>>
    /\ UNCHANGED accVars
    /\ UNCHANGED fnVars

\* errInfoChan: close(infoChan), and the goroutine returns
CloseChan ==
    /\ pc = "close" /\ panicMsg = ""
    /\ IF closed
       THEN /\ Panic("close of closed channel")
            /\ UNCHANGED <<closed, closes, closedBy>>
       ELSE /\ closed' = TRUE
            /\ closes' = closes + 1
            /\ closedBy' = "producer"
            /\ pc' = "done"
            /\ UNCHANGED panicMsg
    /\ UNCHANGED <<api, cap, metadataPID, pesAccumulator, pending, infoChan, rd,
                   cstate, meta, retErr, sent, units, unitPkts>>
    /\ UNCHANGED accVars
    /\ UNCHANGED fnVars

\* the consumer's range loop: one receive and the loop body, or the end of
\* the loop on the closed and drained channel
Recv ==
    /\ cstate = "recv" /\ panicMsg = ""
    /\ Len(infoChan) > 0 \/ closed
    /\ IF Len(infoChan) > 0
       THEN /\ Received(Consume(meta, Head(infoChan)))
            /\ infoChan' = Tail(infoChan)
       ELSE /\ cstate' = "returned"
            /\ retErr' = NilErr
            /\ UNCHANGED <<meta, infoChan>>
    /\ UNCHANGED <<api, cap, pc, metadataPID, pesAccumulator, pending, closed, rd,
                   sent, closes, closedBy, panicMsg, units, unitPkts>>
    /\ UNCHANGED accVars
    /\ UNCHANGED fnVars

\* ReadStream's caller stops receiving for ever
Abandon ==
    /\ api = "ReadStream" /\ cstate = "recv" /\ panicMsg = ""
    /\ cstate' = "abandoned"
    /\ UNCHANGED <<api, cap, pc, metadataPID, pesAccumulator, pending, infoChan,
                   closed, rd, meta, retErr, sent, closes, closedBy, panicMsg,
                   units, unitPkts>>
    /\ UNCHANGED accVars
    /\ UNCHANGED fnVars

\* ReadStream's caller closes the channel it supplied
ConsumerClose ==
    /\ api = "ReadStream" /\ cstate = "recv" /\ panicMsg = ""
    /\ IF closed
       THEN /\ panicMsg' = "close of closed channel"
            /\ cstate' = "panic"
            /\ UNCHANGED <<closed, closedBy>>
       ELSE /\ closed' = TRUE
            /\ closedBy' = "consumer"
            /\ cstate' = "closedChan"
            /\ UNCHANGED panicMsg
    /\ UNCHANGED <<api, cap, pc, metadataPID, pesAccumulator, pending, infoChan,
                   rd, meta, retErr, sent, closes, units, unitPkts>>
    /\ UNCHANGED accVars
    /\ UNCHANGED fnVars

Producer == Locate \/ ReadPacket \/ SendInfo \/ SendErr \/ CloseChan
Consumer == Recv \/ Abandon \/ ConsumerClose

Next == Producer \/ Consumer

Spec == Init /\ [][Next]_vars

\* the Go scheduler runs a goroutine that can take a step
SpecFair == Spec /\ WF_vars(Producer)

\* and Read's receive loop, a goroutine too, runs when it can receive
SpecReadFair == Spec /\ WF_vars(Producer) /\ WF_vars(Recv)

----------------------------------------------------------------------------
(* The accumulator on its own: any sequence of Write calls on one           *)
(* PESAccumulator.  calls records, per call, the packet, the results and    *)
(* the accumulator after the call.                                          *)

InitPipeIdle ==
    /\ api = "Read" /\ cap = 0 /\ pc = "idle" /\ metadataPID = 0
    /\ pesAccumulator = EmptyPESAccumulator /\ pending = ErrItem(NilErr)
    /\ infoChan = << >> /\ closed = FALSE /\ rd = << >> /\ cstate = "idle"
    /\ meta = << >> /\ retErr = NilErr /\ sent = << >> /\ closes = 0
    /\ closedBy = "" /\ panicMsg = "" /\ units = << >> /\ unitPkts = << >>

InitAcc == InitPipeIdle /\ InitAccIdle /\ InitFnIdle

\* the harness after Write returned w for pkt
AccWritten(pkt, w) ==
    /\ acc' = w.pa
    /\ accPanic' = w.panic
    /\ calls' = IF w.panic THEN calls
                ELSE Append(calls, [pkt |-> pkt, done |-> w.done,
                                    err |-> w.err, pa |-> w.pa])

AccWrite ==
    /\ ~accPanic
    /\ Len(calls) < MaxWrites
    /\ \E pkt \in PacketsA : AccWritten(pkt, Write(acc, pkt))
    /\ UNCHANGED pipeVars
    /\ UNCHANGED fnVars

NextAcc == AccWrite

SpecAcc == InitAcc /\ [][NextAcc]_vars

----------------------------------------------------------------------------
(* The pure functions on their own: an input is drawn, the function is      *)
(* applied to it once.                                                      *)

\* longest buffer handed to NewPESHeader
MaxBufLen == 21
\* longest string handed to parseValue
MaxValueLen == 4

\* stream ids: private stream 1 and a video stream, which carry optional
\* fields, and the seven that carry none
HeaderStreamIds ==
    {189, 224, STREAM_ID_PADDNG_STREAM, STREAM_ID_PRIVATE_STREAM_2,
     STREAM_ID_ECM_STREAM, STREAM_ID_EMM_STREAM, STREAM_ID_DSM_CC_STREAM,
     STREAM_ID_ITU_T_H222_1_TYPE_E, STREAM_ID_PROGRAM_STREAM_DIRECTORY}

\* a PES packet of MaxBufLen + 1 bytes: prefix, stream id, declared length,
\* the flag bytes 6 and 7, the header length byte 8, two timestamp fields, data
HeaderBytes(streamId, length, b6, b7, b8) ==
    PESBytes(streamId, length, <<b6, b7, b8>>) \o PTS90000 \o PTS180000
        \o [i \in 1..(MaxBufLen - 18) |-> 64 + i]

\* the buffers NewPESHeader is applied to: every prefix of 5..MaxBufLen bytes
\* of such packets, over declared lengths, alignment flag, the four PTS/DTS
\* indicators and header lengths that end before, at and beyond the buffer
HeaderBuffers ==
    {SubSeq(HeaderBytes(sid, len, b6, b7, b8), 1, n) :
        sid \in HeaderStreamIds, len \in {0, 3, 300}, b6 \in {128, 132},
        b7 \in {0, 64, 128, 192}, b8 \in {0, 5, 10, 12},
        n \in 5..MaxBufLen}

\* the bytes a timestamp field is built from
TimeBytes == {0, 1, 33, 128, 254, 255}
TimeFields == {<<b0, b1, b2, b3, b4>> : b0 \in {0, 14, 33, 241, 255}, b1 \in TimeBytes,
               b2 \in TimeBytes, b3 \in TimeBytes, b4 \in TimeBytes}

\* the strings parseValue is applied to: up to MaxValueLen bytes of NUL, A, B
ValueStrings == UNION {[1..n -> {NUL, 65, 66}] : n \in 0..MaxValueLen}

InitFn(inputs) ==
    /\ InitPipeIdle /\ InitAccIdle
    /\ applied = "" /\ result = << >>
    /\ arg \in inputs

\* the harness applies the function named f, which returns r
Apply(f, r) ==
    /\ applied = ""
    /\ applied' = f
    /\ result' = r
    /\ UNCHANGED arg
    /\ UNCHANGED pipeVars
    /\ UNCHANGED accVars

ApplyNewPESHeader == Apply("NewPESHeader", NewPESHeader(arg))
ApplyExtractTime == Apply("ExtractTime", ExtractTime(arg))
ApplyParseValue == Apply("parseValue", parseValue(arg))

SpecHeader == InitFn(HeaderBuffers) /\ [][ApplyNewPESHeader]_vars
SpecTime == InitFn(TimeFields) /\ [][ApplyExtractTime]_vars
SpecValue == InitFn(ValueStrings) /\ [][ApplyParseValue]_vars

----------------------------------------------------------------------------
(* Claims about the accumulator, checked under SpecAcc *)

\* the first call parsed a header; N is the remaining expected size it recorded
HeaderParsed ==
    /\ Len(calls) >= 1
    /\ ~calls[1].pa.PESHeader.isNil
    /\ calls[1].err \in {NilErr, OverrunErr}

ExpectedN == calls[1].pa.packetSize

RECURSIVE PayloadsOf(_, _, _)
\* the payloads of the chunks of calls i..j, in arrival order
PayloadsOf(cs, i, j) ==
    IF i > j THEN << >>
    ELSE PacketPayload(cs[i].pkt).bytes \o PayloadsOf(cs, i + 1, j)

\* what C1 says of call i
C1_CallAsClaimed(i) ==
    LET c == calls[i]
        n == Len(c.pa.Data)
    IN /\ n < ExpectedN => (~c.done /\ c.err = NilErr)
       /\ (c.done /\ c.err = NilErr) <=> (n = ExpectedN)
       /\ n = ExpectedN =>
            c.pa.Data = calls[1].pa.PESHeader.data \o PayloadsOf(calls, 2, i)
       /\ c.pa.PESHeader = calls[1].pa.PESHeader

\* C1 as stated: after a first chunk that parses to a header with remaining
\* size N, every Write call returns done=false and no error while len(Data) < N,
\* done=true and no error exactly when len(Data) = N, and Data is then the
\* header's trailing bytes followed by the later chunks' payloads in order.
C1_Original == HeaderParsed => \A i \in 1..Len(calls) : C1_CallAsClaimed(i)

\* C1 (amended): the same holds of every call whose packet carries a payload;
\* a call whose packet carries none returns done=false with an error and
\* leaves the accumulator as it was.
C1_DoneExactlyAtN ==
    HeaderParsed =>
      \A i \in 1..Len(calls) :
        IF calls[i].pkt.hasPayload
        THEN C1_CallAsClaimed(i)
        ELSE /\ ~calls[i].done
             /\ calls[i].err # NilErr
             /\ calls[i].err # OverrunErr
             /\ i > 1 /\ calls[i].pa = calls[i - 1].pa

\* C1 witness: a unit completed by its third chunk, the chunks in either order
C1_Witness ==
    /\ HeaderParsed
    /\ Len(calls) = 3
    /\ ExpectedN = 4
    /\ ~calls[2].done
    /\ calls[3].done /\ calls[3].err = NilErr
    /\ calls[3].pa.Data = <<ID3Magic, NUL, 65, 65>>

\* C2: Write returns the overrun error on the first call after which len(Data)
\* exceeds the expected total and on no call before it, so after calls that all
\* returned nil, len(Data) <= the expected total.
C2_OverrunOnCrossing ==
    /\ \A i \in 1..Len(calls) :
         LET c == calls[i]
             over(k) == Len(calls[k].pa.Data) > calls[k].pa.packetSize
         IN /\ c.err = OverrunErr => over(i)
            /\ (over(i) /\ (i = 1 \/ ~over(i - 1))) => c.err = OverrunErr
            /\ (\A j \in 1..i : calls[j].err = NilErr) => ~over(i)
    /\ (\A j \in 1..Len(calls) : calls[j].err = NilErr) =>
         Len(acc.Data) <= acc.packetSize

\* C2 witness: the overrun is reported by a later chunk, after a call without error
C2_Witness ==
    /\ Len(calls) = 3
    /\ calls[1].err = NilErr /\ calls[2].err = NilErr
    /\ calls[3].err = OverrunErr
    /\ Len(calls[2].pa.Data) < calls[2].pa.packetSize

----------------------------------------------------------------------------
(* The pipeline's claims, over the runs of Spec.                            *)

RECURSIVE RecordsOf(_, _)
\* the MetaInfo values of the record items among items[i..], in order
RecordsOf(items, i) ==
    IF i > Len(items) THEN << >>
    ELSE IF items[i].Error = NilErr
    THEN <<items[i].MetaInfo>> \o RecordsOf(items, i + 1)
    ELSE RecordsOf(items, i + 1)

\* the producer has sent an error item
TerminalSent == Len(sent) > 0 /\ sent[Len(sent)].Error # NilErr

\* the input ended: the last read returned io.EOF or io.ErrUnexpectedEOF
Exhausted ==
    /\ Len(rd) > 0
    /\ rd[Len(rd)].err # NilErr
    /\ IsEOF(rd[Len(rd)].err) \/ IsUnexpectedEOF(rd[Len(rd)].err)

\* the list the synchronous mode returns for the input read so far
SyncMeta == IF metadataPID = 0 THEN << >> ELSE readPackets(rd, metadataPID).meta

\* C3: for every input and interleaving, the list Read has returned, the
\* records ReadStream delivered before its terminal item, and the list the
\* synchronous readPackets builds from the same input are the same list;
\* until then the records received and those still buffered are the records
\* sent, in order.
C3_ModesAgree ==
    /\ meta \o RecordsOf(infoChan, 1) = RecordsOf(sent, 1)
    /\ cstate = "returned" =>
         /\ TerminalSent
         /\ meta = RecordsOf(sent, 1)
         /\ meta = SyncMeta

\* C3 witness: Read returned two different records
C3_Witness ==
    /\ cstate = "returned" /\ api = "Read"
    /\ Len(meta) = 2 /\ meta[1] # meta[2]

\* the producer has stopped: its goroutine returned, or the process died in it
ProducerStopped == pc = "done" \/ (pc = "panic" /\ panicMsg # "")

\* C4: Read returns a nil error only when the packet read hit the end of the
\* input; when the pipeline ended on any other condition Read returns the
\* error of that condition, non-nil, with exactly the records emitted before it.
C4_NilOnlyOnExhaustion ==
    cstate = "returned" =>
      /\ retErr = NilErr <=> Exhausted
      /\ ~Exhausted => retErr = sent[Len(sent)].Error
      /\ meta = RecordsOf(sent, 1)

\* C5: the producer enqueues records, then exactly one error item (io.EOF
\* exactly when the input ended), then closes the channel exactly once; after
\* the error item it enqueues nothing, reads nothing and sends on no closed
\* channel.  A consumer that closes the channel itself is left aside.
C5_ItemsThenTerminalThenClose ==
    /\ [](/\ \A i \in 1..Len(sent) :
               IF sent[i].Error = NilErr
               THEN ~sent[i].MetaInfo.isNil
               ELSE i = Len(sent) /\ sent[i].MetaInfo.isNil
          /\ TerminalSent => (sent[Len(sent)].Error = <<"EOF">> <=> Exhausted)
          /\ closes <= 1
          /\ closes = 1 => TerminalSent
          /\ panicMsg = "send on closed channel" => closedBy = "consumer"
          /\ (ProducerStopped /\ closedBy # "consumer") =>
               TerminalSent /\ closes = 1)
    /\ [][TerminalSent => sent' = sent /\ rd' = rd]_vars

\* the producer is at a send that cannot proceed
BlockedAtSend == pc \in {"send", "sendErr"} /\ ~closed /\ ~CanSend

\* C6 as stated: after the consumer abandons or closes the channel the producer
\* is never left blocked at a send and never fails by sending on the closed
\* channel.
C6_Original ==
    /\ ~(cstate = "abandoned" /\ BlockedAtSend)
    /\ panicMsg # "send on closed channel"

\* C6 (amended): after the consumer abandons the channel the producer ends up
\* finished, dead, or blocked at a send on the full channel, and once blocked
\* there it stays blocked; after the consumer closes the channel the producer
\* never finishes normally but dies in a panic.
C6_StopsBlocksOrPanics ==
    /\ (cstate = "abandoned") ~> (ProducerStopped \/ BlockedAtSend)
    /\ [][(cstate = "abandoned" /\ BlockedAtSend) =>
            (cstate' = "abandoned" /\ BlockedAtSend')]_vars
    /\ [](closedBy = "consumer" => pc # "done")
    /\ (closedBy = "consumer") ~> (pc = "panic")

\* C6 witness: the consumer abandoned an unbuffered channel and the producer
\* is blocked at the send of its first record
C6_Witness ==
    /\ cstate = "abandoned" /\ cap = 0
    /\ pc = "send" /\ BlockedAtSend /\ sent = << >>

\* C7 as stated: the channel never holds more than its capacity, and while it
\* is full the producer performs no packet read.
C7_Original ==
    /\ [](Len(infoChan) <= cap)
    /\ [][(cap > 0 /\ Len(infoChan) = cap) => (rd' = rd)]_vars

\* C7 (amended): the channel never holds more than its capacity; a producer
\* that has an item to send reads no packet before it has sent it, and at a
\* send that finds the channel full it neither sends nor moves on until the
\* consumer has received an item.
C7_Backpressure ==
    /\ [](Len(infoChan) <= cap)
    /\ [][(pc \in {"send", "sendErr"}) => (rd' = rd)]_vars
    /\ [][BlockedAtSend => (sent' = sent /\ pc' = pc /\ Len(infoChan') <= Len(infoChan))]_vars

\* C7 witness: the producer read a further unit while the channel was full and
\* is suspended at the send of its record
C7_Witness ==
    /\ cap = 1 /\ Len(infoChan) = 1 /\ cstate = "recv"
    /\ pc = "send" /\ BlockedAtSend /\ Len(units) = 1 /\ Len(unitPkts) > 0

\* no packet of the target stream was read
NoTargetPacket ==
    \A i \in 1..Len(rd) : rd[i].err # NilErr \/ rd[i].pkt.pid # metadataPID

\* C8: once the stream is resolved, a read that finds the input ended, cleanly
\* or inside a packet, makes io.EOF the terminal item whatever unit is being
\* accumulated; no other error item is sent, Read returns no error and exactly
\* the records of the units completed before, and none if no packet of the
\* target stream was read.
C8_ExhaustionIsSuccess ==
    (metadataPID # 0 /\ Exhausted) =>
      /\ pc \in {"sendErr", "close", "done", "panic"}
      /\ pending = ErrItem(<<"EOF">>)
      /\ TerminalSent => sent[Len(sent)] = ErrItem(<<"EOF">>)
      /\ Len(RecordsOf(sent, 1)) = Len(units)
      /\ NoTargetPacket => units = << >>
      /\ cstate = "returned" =>
           /\ retErr = NilErr
           /\ meta = RecordsOf(sent, 1)
           /\ Len(meta) = Len(units)

\* C8 witness: the input ended inside a packet while a unit was being
\* accumulated, and Read returned the one record completed before
C8_Witness ==
    /\ cstate = "returned" /\ Exhausted
    /\ IsUnexpectedEOF(rd[Len(rd)].err)
    /\ Len(meta) = 1 /\ Len(unitPkts) > 0
    /\ pesAccumulator # EmptyPESAccumulator

\* the accumulator after Write returned w on it
written(pa, w) == IF w.panic THEN pa ELSE w.pa

RECURSIVE FoldWrite(_, _, _, _)
\* the accumulator pa after Write of pkts[i..n] in order
FoldWrite(pa, pkts, i, n) ==
    IF i > n THEN pa
    ELSE FoldWrite(written(pa, Write(pa, pkts[i])), pkts, i + 1, n)

\* what Write returns for the n-th of pkts fed to a new accumulator
NthWrite(pkts, n) == Write(FoldWrite(EmptyPESAccumulator, pkts, 1, n - 1), pkts[n])

\* w completes a unit whose record is mi
CompletesWith(w, mi) ==
    /\ ~w.panic /\ w.done /\ w.err = NilErr
    /\ parseID3(w.pa) = [mi |-> mi, err |-> NilErr]

\* pkts are the packets of one unit, completed by the last of them, and mi is
\* the record decoded from them alone
UnitRecord(pkts, mi) ==
    /\ Len(pkts) > 0
    /\ \A j \in 1..(Len(pkts) - 1) : ~NthWrite(pkts, j).done
    /\ CompletesWith(NthWrite(pkts, Len(pkts)), mi)

\* w completes no unit that decodes
NoRecord(w) == w.panic \/ w.err # NilErr \/ ~w.done \/ parseID3(w.pa).err # NilErr

\* C9: the records sent are, in order, one for each unit completed so far,
\* each decoded from the packets of its own unit fed to a new accumulator; the
\* accumulator holds nothing but the packets read since the last completed
\* unit, a unit that completes and decodes is sent as the next record, and the
\* pipeline aborts on a packet only if it yields no record.
C9_OneRecordPerUnit ==
    /\ Len(RecordsOf(sent, 1)) = Len(units)
    /\ \A k \in 1..Len(units) : UnitRecord(units[k], RecordsOf(sent, 1)[k])
    /\ pc \in {"read", "send"} =>
         pesAccumulator = FoldWrite(EmptyPESAccumulator, unitPkts, 1, Len(unitPkts))
    /\ pc = "read" => \A j \in 1..Len(unitPkts) : ~NthWrite(unitPkts, j).done
    /\ pc = "send" => UnitRecord(unitPkts, pending.MetaInfo)
    /\ (pc = "sendErr" /\ Len(rd) > 0 /\ rd[Len(rd)].err = NilErr) =>
         NoRecord(NthWrite(unitPkts, Len(unitPkts)))

\* C9 witness: two units completed, the first from two packets, and their
\* records were sent in that order with their own timestamps
C9_Witness ==
    /\ Len(units) = 2 /\ Len(units[1]) = 2 /\ Len(units[2]) = 1
    /\ Len(sent) = 2
    /\ sent[1].MetaInfo.PTS # sent[2].MetaInfo.PTS
    /\ pc = "read" /\ pesAccumulator = EmptyPESAccumulator

\* getStreamPID returned an error
LocatorFailed == pc # "locate" /\ metadataPID = 0

\* C10: when the locator finds no metadata stream or fails, no packet is read
\* or fed to an accumulator, the only item ever sent is one error item, and
\* Read returns an empty list with a non-nil error.
C10_LocatorFailureAborts ==
    LocatorFailed =>
      /\ rd = << >> /\ unitPkts = << >>
      /\ pesAccumulator = EmptyPESAccumulator
      /\ Len(sent) <= 1
      /\ pc \in {"close", "done"} => Len(sent) = 1
      /\ Len(sent) = 1 => sent[1].Error # NilErr /\ sent[1].MetaInfo.isNil
      /\ cstate = "returned" => meta = << >> /\ retErr # NilErr

----------------------------------------------------------------------------
(* The header parser's claims, over the runs of SpecHeader.                 *)

\* NewPESHeader was applied to arg
HeaderApplied == applied = "NewPESHeader"

\* the stream id of arg carries optional fields
ArgHasOptional == optionalFieldsExist([ZeroPESHeader EXCEPT !.streamId = At(arg, 3)])

\* NewPESHeader parses the optional fields of arg
ArgOptionalParsed == Len(arg) >= 9 /\ ArgHasOptional

\* C11: NewPESHeader fails with the length error exactly when the buffer has
\* fewer than 6 bytes; for 6 or more bytes it returns a header with no error
\* and reads no byte beyond the buffer, and the data alignment flag is taken
\* from byte 6 only when the optional fields are parsed.
C11_LengthErrorBelowSixOnly ==
    HeaderApplied =>
      /\ result.err # NilErr <=> Len(arg) < 6
      /\ Len(arg) < 6 => result.err = <<"invalid length for PES header">>
      /\ Len(arg) >= 6 => ~result.panic
      /\ (Len(arg) >= 6 /\ ~ArgOptionalParsed) => ~result.pes.dataAlignment

\* the two bits 7..6 of byte 7: 0 none, 1 reserved, 2 PTS only, 3 both
ArgIndicator == At(arg, 7) \div 64

\* C12: when the optional fields are parsed, the PTS is the timestamp of
\* bytes 9..13 exactly when the indicator is "PTS only" or "both" and there
\* are at least 14 bytes, the DTS is the timestamp of bytes 14..18 exactly
\* when the indicator is "both" and there are at least 19 bytes; otherwise,
\* also for the indicators "none" and "reserved", they stay 0.
C12_TimestampsByIndicator ==
    (HeaderApplied /\ ArgOptionalParsed) =>
      /\ result.pes.pts =
           IF ArgIndicator \in {2, 3} /\ Len(arg) >= 14
           THEN ExtractTime(Slice(arg, 9, 14)) ELSE U64Zero
      /\ result.pes.dts =
           IF ArgIndicator = 3 /\ Len(arg) >= 19
           THEN ExtractTime(Slice(arg, 14, 19)) ELSE U64Zero

\* the 16-bit declared length in bytes 4 and 5
ArgDeclaredLength == 256 * At(arg, 4) + At(arg, 5)

\* C13: for a buffer of at least the 6 required bytes whose stream id is one
\* of the seven that carry no optional fields, NewPESHeader yields data start
\* offset 6, indicator 0, PTS and DTS 0 and the bytes from index 6 on as data,
\* whatever bytes 7 and 8 hold; the remaining size is the declared length.
C13_NoOptionalStreamIds ==
    (HeaderApplied /\ Len(arg) >= 6 /\ ~ArgHasOptional) =>
      /\ ~result.panic /\ result.err = NilErr
      /\ result.pes.dataStartIndex = 6
      /\ result.pes.ptsDtsIndicator = 0
      /\ result.pes.pts = U64Zero /\ result.pes.dts = U64Zero
      /\ result.pes.data = SliceFrom(arg, 6)
      /\ PacketSize(result.pes) = ArgDeclaredLength

----------------------------------------------------------------------------
(* ExtractTime's claim, over the runs of SpecTime.                          *)

\* the 3-bit and 7-bit fragments of a byte, by arithmetic
Frag3(b) == (b \div 2) % 8
Frag7(b) == (b \div 2) % 128

\* the fields that differ from arg in marker bits only: the top 4 bits and
\* the lowest bit of byte 0, the lowest bit of byte 2 and of byte 4
MarkerVariants ==
    {<<16 * top + 2 * Frag3(At(arg, 0)) + l0, At(arg, 1),
       2 * (At(arg, 2) \div 2) + l2, At(arg, 3), 2 * (At(arg, 4) \div 2) + l4>> :
        top \in {0, 5, 10, 15}, l0 \in {0, 1}, l2 \in {0, 1}, l4 \in {0, 1}}

\* C14: ExtractTime returns (a<<30)|(b<<22)|(c<<15)|(d<<7)|e for the fragments
\* a, c, e and the bytes b, d; the fragments lie in disjoint bit ranges, so
\* the result is their sum; it is below 2^33 and the same for every setting
\* of the marker bits.
C14_ExtractTimeLayout ==
    applied = "ExtractTime" =>
      /\ result.hi = Frag3(At(arg, 0))
      /\ result.lo = At(arg, 1) * 2^22 + Frag7(At(arg, 2)) * 2^15
                       + At(arg, 3) * 2^7 + Frag7(At(arg, 4))
      /\ result.hi < 2^3 /\ result.lo < 2^30
      /\ Frag7(At(arg, 4)) < 2^7
      /\ At(arg, 3) * 2^7 + Frag7(At(arg, 4)) < 2^15
      /\ Frag7(At(arg, 2)) * 2^15 + At(arg, 3) * 2^7 + Frag7(At(arg, 4)) < 2^22
      /\ \A v \in MarkerVariants : ExtractTime(v) = result

\* C14 witness: every fragment at its maximum, the result 2^33 - 1, from a
\* field with all marker bits set
C14_Witness ==
    /\ applied = "ExtractTime"
    /\ arg = <<255, 255, 255, 255, 255>>
    /\ result = [hi |-> 7, lo |-> 2^30 - 1]

----------------------------------------------------------------------------
(* parseValue's claim, over the runs of SpecValue.                          *)

\* the positions of the NUL bytes of arg
NulPositions == {i \in 1..Len(arg) : arg[i] = NUL}

\* arg cut at position k
CutAt(k) == [Prefix |-> SubSeq(arg, 1, k - 1), Value |-> SubSeq(arg, k + 1, Len(arg))]

\* C15: parseValue returns the text before the NUL byte as prefix and the
\* text after it as value when the string holds exactly one NUL byte, and an
\* empty prefix with the whole string as value when it holds none or several.
C15_SplitOnSingleNul ==
    applied = "parseValue" =>
      IF Cardinality(NulPositions) = 1
      THEN \A k \in NulPositions : result = CutAt(k)
      ELSE result = [Prefix |-> << >>, Value |-> arg]

\* C15 witness: a string with two NUL bytes came back unsplit
C15_Witness ==
    /\ applied = "parseValue"
    /\ arg = <<65, NUL, 66, NUL>>
    /\ result = [Prefix |-> << >>, Value |-> <<65, NUL, 66, NUL>>]

----------------------------------------------------------------------------
(* Further claims on the pipeline, over the runs of Spec.                   *)

\* h is a header parsed without error whose remaining size is 0 and which
\* carries no data
ZeroSizeHeader(h) ==
    /\ ~h.panic /\ h.err = NilErr
    /\ PacketSize(h.pes) = 0
    /\ h.pes.data = << >>

\* pkt starts a unit of remaining size 0 with no data beyond its header
StartsEmptyUnit(pkt) ==
    /\ PacketPESHeader(pkt).err = NilErr
    /\ ZeroSizeHeader(NewPESHeader(PacketPESHeader(pkt).bytes))

\* w is a Write result that completes a unit with an empty buffer
DoneEmpty(w) == ~w.panic /\ w.done /\ w.err = NilErr /\ w.pa.Data = << >>

\* C16: when the first chunk of a unit parses to a header of remaining size 0
\* with no data beyond the header, the first Write returns done=true, no
\* error and an empty Data, and the loop passes that empty buffer to the
\* decoder at once: no further packet is fed to the unit, and what the
\* producer sends next is the decoder's outcome on the empty buffer.
C16_EmptyUnitCompletesAtOnce ==
    (Len(unitPkts) > 0 /\ StartsEmptyUnit(unitPkts[1])) =>
      /\ DoneEmpty(NthWrite(unitPkts, 1))
      /\ Len(unitPkts) = 1
      /\ pc # "read"
      /\ pesAccumulator.Data = << >>
      /\ pending = afterDone(pesAccumulator, parseID3(pesAccumulator)).item

\* C16 witness: after a first record, a unit of size 0 was started and its
\* empty buffer went to the decoder, whose failure is about to be sent
C16_Witness ==
    /\ Len(units) = 1
    /\ unitPkts = <<PesEmptyUnit>>
    /\ pc = "sendErr"
    /\ pending.Error = <<"failed ID3 parse", "EOF">>

\* this step reads a packet of a stream other than the target
ReadsOtherStream ==
    /\ Len(rd') = Len(rd) + 1
    /\ rd'[Len(rd')].err = NilErr
    /\ rd'[Len(rd')].pkt.pid # metadataPID

\* C17: reading a packet of another stream leaves the accumulator's header,
\* buffer and expected size as they were, enqueues nothing, raises no error
\* and leaves the producer at its next read, wherever in a unit it happens.
C17_OtherStreamIgnored ==
    [][ReadsOtherStream =>
         /\ pesAccumulator' = pesAccumulator
         /\ unitPkts' = unitPkts /\ units' = units
         /\ sent' = sent /\ infoChan' = infoChan /\ closed' = closed
         /\ pc = "read" /\ pc' = "read"
         /\ panicMsg' = "" /\ pending'.Error = NilErr]_vars

\* C17 witness: a packet of another stream was read between the two packets
\* of a unit, whose record was then sent
C17_Witness ==
    /\ Len(rd) = 3
    /\ rd[1].pkt = PesNeedsOne /\ rd[2].pkt = OtherStream /\ rd[3].pkt = ContOne
    /\ units = <<(<<PesNeedsOne, ContOne>>)>>
    /\ Len(sent) = 1 /\ sent[1].Error = NilErr

\* the first packet fed to the current, empty accumulator holds no PES header
HeaderlessStart == Len(unitPkts) > 0 /\ PacketPESHeader(unitPkts[1]).err # NilErr

\* the error Write returns for a first packet pkt without a PES header
NoHeaderErr(pkt) ==
    Wrap("first packet must contain a PES Header", PacketPESHeader(pkt).err)

\* C18: when the packet fed to an empty accumulator, at the start or after a
\* completed unit, holds no PES header, Write returns an error and the
\* pipeline aborts with it: it is the terminal item, no packet is read and no
\* record is sent after it, the records sent before stay, and Read returns
\* them with that error.
C18_HeaderlessStartAborts ==
    /\ [](HeaderlessStart =>
            /\ Len(unitPkts) = 1
            /\ ~NthWrite(unitPkts, 1).done
            /\ NthWrite(unitPkts, 1).err = NoHeaderErr(unitPkts[1])
            /\ pc \in {"sendErr", "close", "done", "panic"}
            /\ pending = ErrItem(Wrap("failed accumulation, bailing",
                                      NoHeaderErr(unitPkts[1])))
            /\ TerminalSent => sent[Len(sent)] = pending
            /\ Len(RecordsOf(sent, 1)) = Len(units)
            /\ cstate = "returned" =>
                 /\ retErr = pending.Error
                 /\ meta = RecordsOf(sent, 1))
    /\ [][HeaderlessStart =>
            /\ rd' = rd /\ units' = units /\ unitPkts' = unitPkts
            /\ RecordsOf(sent', 1) = RecordsOf(sent, 1)]_vars

\* C18 witness: after one record, a continuation packet met the new, empty
\* accumulator, and Read returned the record with the error
C18_Witness ==
    /\ Len(units) = 1 /\ unitPkts = <<ContOne>>
    /\ cstate = "returned" /\ Len(meta) = 1
    /\ retErr = <<"failed accumulation, bailing",
                  "first packet must contain a PES Header", "ErrNoPayload">>

----------------------------------------------------------------------------
(* Further claims on the header parser, over the runs of SpecHeader.        *)

\* 9 plus the header length byte at index 8
ArgDataStart == 9 + At(arg, 8)

\* C19: for a buffer of at least 9 bytes whose stream id carries optional
\* fields, the data start offset is 9 plus byte 8 and Data() is the buffer
\* from that offset on; when the buffer is not longer than the offset Data()
\* is empty and there is no error; PacketSize() is the declared length minus
\* (data start offset - 6).
C19_DataStartFromHeaderLength ==
    (HeaderApplied /\ ArgOptionalParsed) =>
      /\ ~result.panic /\ result.err = NilErr
      /\ result.pes.dataStartIndex = ArgDataStart
      /\ result.pes.data = SubSeq(arg, ArgDataStart + 1, Len(arg))
      /\ Len(arg) <= ArgDataStart => result.pes.data = << >>
      /\ PacketSize(result.pes) = ArgDeclaredLength - (ArgDataStart - 6)

\* C19 witness: a buffer that ends exactly at its data start offset 19
C19_Witness ==
    /\ HeaderApplied /\ ArgOptionalParsed
    /\ Len(arg) = 19 /\ ArgDataStart = 19
    /\ result.err = NilErr /\ result.pes.data = << >>
    /\ result.pes.dataStartIndex = 19

----------------------------------------------------------------------------
(* A further claim on the accumulator, over the runs of SpecAcc.            *)

\* C20: for every header parsed without error, also one whose declared
\* length is 0 or smaller than its optional header region, the remaining
\* size the accumulator records is not negative, and a first chunk with no
\* data beyond the header is not reported as an overrun.
C20_SizeNeverNegative ==
    HeaderParsed =>
      /\ calls[1].pa.packetSize >= 0
      /\ PacketSize(calls[1].pa.PESHeader) >= 0
      /\ calls[1].pa.PESHeader.data = << >> => calls[1].err # OverrunErr

----------------------------------------------------------------------------
(* Read's termination, over the fair runs of SpecReadFair.                  *)

\* Read waits on the empty channel and the producer will never send or close
ReadStranded ==
    /\ cstate = "recv" /\ Len(infoChan) = 0 /\ ~closed
    /\ pc = "panic"

\* C21: for every finite input and every fair interleaving Read returns; it
\* is never left waiting on a channel nobody will send on, and once it has
\* returned the producer has only its close left, needs no further receive,
\* and finishes.
C21_ReadTerminates ==
    /\ [](api = "Read" => ~ReadStranded)
    /\ [](api = "Read" /\ cstate = "returned" => pc \in {"close", "done"})
    /\ (api = "Read") ~> (cstate = "returned")
    /\ (api = "Read" /\ cstate = "returned") ~> (pc = "done")

====
